---- MODULE Spec2Model ----
(***************************************************************************)
(* A model of zyde: the register virtual machine of src/src/vm.rs and the  *)
(* control-flow lowering pass of src/src/ir.rs.                            *)
(*                                                                         *)
(* The numeric type T is i32, the type src/src/main.rs instantiates.       *)
(* Rust indexes from 0 and TLA+ sequences from 1: register i is            *)
(* registers[i + 1], instruction i is program[i + 1], output entry i of    *)
(* the lowering pass is output[i + 1].                                     *)
(***************************************************************************)
EXTENDS Integers, Sequences, FiniteSets, TLC

VARIABLES
    \* VM (src/src/vm.rs:38-45)
    program,        \* VM::program, never written by run
    pc,             \* VM::pc
    registers,      \* VM::registers
    call_stack,     \* VM::call_stack, a sequence of Frame
    variables,      \* VM::variables, a function from the stored names
    result,         \* what run has returned so far (Running while in the loop)
    \* history of the run, read only by the properties
    last,           \* index of the instruction fetched last, -1 before the first
    steps,          \* number of instructions fetched
    ncalls,         \* number of Call instructions executed without failure
    nrets,          \* number of Return instructions executed without failure
    \* lower_control_flow (src/src/ir.rs:225-311)
    ir,             \* the input sequence
    pos,            \* number of input instructions consumed by the for loop
    output,         \* the local output
    control_stack,  \* the local control_stack
    lresult,        \* Running, Returned, or the panic that ended the pass
    \* parse_ir (src/src/ir.rs:42-151)
    input,          \* the lines of the text, each the sequence of its tokens
    lineno,         \* number of lines consumed by the for loop
    presult,        \* Running, Returned, or the panic that ended parse_ir, with
                    \* the line number it prints
    \* assemble (src/src/ir.rs:153-223)
    aresult,        \* Pending, Assembled, or the panic that ended assemble
    \* the stack machine the assembled instructions run on
    stack,          \* the evaluation stack
    printed         \* the values PRINT has written, oldest first

vmvars == <<program, pc, registers, call_stack, variables, result,
            last, steps, ncalls, nrets>>
lowervars == <<ir, pos, output, control_stack, lresult>>
extvars == <<input, lineno, presult, aresult, stack, printed>>
vars == <<program, pc, registers, call_stack, variables, result,
          last, steps, ncalls, nrets, ir, pos, output, control_stack, lresult,
          input, lineno, presult, aresult, stack, printed>>

----------------------------------------------------------------------------
(* Bounds *)

MaxProgLen == 3
NumRegs == 2
MaxImm == 1
MaxSteps == 6

----------------------------------------------------------------------------
(* The numeric type: i32.  The range MIN .. MAX is scaled down to            *)
(* -(IntMax + 1) .. IntMax, which keeps what i32 arithmetic does at the edge *)
(* of its range within the integers the model checker can evaluate.          *)

IntMax == 127
IntMin == -IntMax - 1

Abs(x) == IF x < 0 THEN -x ELSE x

\* two's complement wrap-around of an out-of-range result
Wrap(x) == ((x - IntMin) % (2 * (IntMax + 1))) + IntMin

\* The outcome of an i32 +, - or *: with overflow checks (a debug build) an
\* out-of-range result panics, without them (a release build) it wraps.
Checked(x, overflow_checks) ==
    IF x >= IntMin /\ x <= IntMax
    THEN [panic |-> FALSE, value |-> x]
    ELSE IF overflow_checks
         THEN [panic |-> TRUE, value |-> 0]
         ELSE [panic |-> FALSE, value |-> Wrap(x)]

NumAdd(a, b, oc) == Checked(a + b, oc)
NumSub(a, b, oc) == Checked(a - b, oc)
NumMul(a, b, oc) == Checked(a * b, oc)

\* i32 division truncates toward zero; a zero divisor and MIN / -1 panic in
\* every build.
NumDiv(a, b, oc) ==
    IF b = 0 \/ (a = IntMin /\ b = -1)
    THEN [panic |-> TRUE, value |-> 0]
    ELSE [panic |-> FALSE,
          value |-> IF (a >= 0) = (b > 0)
                    THEN Abs(a) \div Abs(b)
                    ELSE -(Abs(a) \div Abs(b))]

NumEqual(a, b, oc) == [panic |-> FALSE, value |-> IF a = b THEN 1 ELSE 0]
NumLessThan(a, b, oc) == [panic |-> FALSE, value |-> IF a < b THEN 1 ELSE 0]
NumGreaterThan(a, b, oc) == [panic |-> FALSE, value |-> IF a > b THEN 1 ELSE 0]

----------------------------------------------------------------------------
(* Instructions (src/src/instruction.rs) and the results of run *)

\* One record shape for every variant.  Print{src}, Store{src} and Not{src}
\* keep src in src1; ConditionalJump{cond, target} keeps cond in src1 and
\* target in addr; Jump(addr) and Call{addr} keep the address in addr.
Ins(op, dest, src1, src2, value, addr, var) ==
    [op |-> op, dest |-> dest, src1 |-> src1, src2 |-> src2,
     value |-> value, addr |-> addr, var |-> var]

LoadImm(dest, value) == Ins("LoadImm", dest, 0, 0, value, 0, "")
Arith(op, dest, src1, src2) == Ins(op, dest, src1, src2, 0, 0, "")
PrintI(src) == Ins("Print", 0, src, 0, 0, 0, "")
Jump(addr) == Ins("Jump", 0, 0, 0, 0, addr, "")
Call(addr) == Ins("Call", 0, 0, 0, 0, addr, "")
ConditionalJump(cond, target) == Ins("ConditionalJump", 0, cond, 0, 0, target, "")
Return == Ins("Return", 0, 0, 0, 0, 0, "")
Store(src, var) == Ins("Store", 0, src, 0, 0, 0, var)
Load(dest, var) == Ins("Load", dest, 0, 0, 0, 0, var)
Not(dest, src) == Ins("Not", dest, src, 0, 0, 0, "")
Mov(dest, src) == Ins("Mov", dest, src, 0, 0, 0, "")
Halt == Ins("Halt", 0, 0, 0, 0, 0, "")

BinaryOps == {"Add", "Sub", "Mul", "Div", "Equal", "LessThan", "GreaterThan"}

\* Frame::new
Frame(return_address) == [return_address |-> return_address]

\* What run has returned: Running (still in the loop), Ok(()), Err(VmError) with
\* the error's message, or Panic when the thread unwound instead of returning.
Res(kind, text, index, var) ==
    [kind |-> kind, text |-> text, index |-> index, var |-> var]

Running == Res("Running", "", -1, "")
Ok == Res("Ok", "", -1, "")
Panic(text) == Res("Panic", text, -1, "")
InvalidRegister(index) ==
    Res("RegisterOutOfBounds", "invalid register index", index, "")
VariableMissing(var) ==
    Res("RegisterOutOfBounds", "variable not found", -1, var)
ProgramCounterOutOfBounds == Res("ProgramCounterOutOfBounds", "", -1, "")
CallStackEmpty == Res("CallStackEmpty", "", -1, "")

\* the ? operator: the failure becomes the result of run
Fail(m, err) == [m EXCEPT !.result = err]

----------------------------------------------------------------------------
(* The VM's helpers.  m is the machine inside one loop iteration:            *)
(* [pc, registers, call_stack, variables, result].                           *)

get_register(m, index) ==
    IF index < Len(m.registers)
    THEN [ok |-> TRUE, value |-> m.registers[index + 1], err |-> Running]
    ELSE [ok |-> FALSE, value |-> 0, err |-> InvalidRegister(index)]

\* set_register writing the value to the first register, whatever the index
set_register_first(m, index, value) ==
    IF index < Len(m.registers)
    THEN [m EXCEPT !.registers[1] = value]
    ELSE Fail(m, InvalidRegister(index))

set_register(m, index, value) ==
    IF index < Len(m.registers)
    THEN [m EXCEPT !.registers[index + 1] = value]
    ELSE Fail(m, InvalidRegister(index))

\* jump accepting the length of the program as a target
jump_to_length(m, addr) ==
    IF addr > Len(program)
    THEN Fail(m, ProgramCounterOutOfBounds)
    ELSE [m EXCEPT !.pc = addr]

jump(m, addr) ==
    IF addr >= Len(program)
    THEN Fail(m, ProgramCounterOutOfBounds)
    ELSE [m EXCEPT !.pc = addr]

\* call with the frame pushed before the target is validated
call_push_first(m, addr) ==
    LET pushed == [m EXCEPT !.call_stack = Append(@, Frame(m.pc))]
    IN  IF addr >= Len(program)
        THEN Fail(pushed, ProgramCounterOutOfBounds)
        ELSE [pushed EXCEPT !.pc = addr]

\* call saving the address of the Call itself instead of the one after it
call_return_to_self(m, addr) ==
    IF addr >= Len(program)
    THEN Fail(m, ProgramCounterOutOfBounds)
    ELSE [m EXCEPT !.call_stack = Append(@, Frame(m.pc - 1)), !.pc = addr]

call(m, addr) ==
    IF addr >= Len(program)
    THEN Fail(m, ProgramCounterOutOfBounds)
    ELSE [m EXCEPT !.call_stack = Append(@, Frame(m.pc)), !.pc = addr]

\* ret reading the top frame without popping it
ret_keep_frame(m) ==
    IF m.call_stack = <<>>
    THEN Fail(m, CallStackEmpty)
    ELSE [m EXCEPT !.pc = m.call_stack[Len(m.call_stack)].return_address]

\* ret treating an empty call stack as nothing to do
ret_ignore_empty(m) ==
    IF m.call_stack = <<>>
    THEN m
    ELSE [m EXCEPT !.pc = m.call_stack[Len(m.call_stack)].return_address,
                   !.call_stack = SubSeq(@, 1, Len(@) - 1)]

ret(m) ==
    IF m.call_stack = <<>>
    THEN Fail(m, CallStackEmpty)
    ELSE [m EXCEPT !.pc = m.call_stack[Len(m.call_stack)].return_address,
                   !.call_stack = SubSeq(@, 1, Len(@) - 1)]

\* HashMap::insert
Insert(map, key, value) ==
    [k \in (DOMAIN map) \cup {key} |-> IF k = key THEN value ELSE map[k]]

\* v1 OP v2 of the arm op
Compute(op, a, b, oc) ==
    CASE op = "Add" -> NumAdd(a, b, oc)
      [] op = "Sub" -> NumSub(a, b, oc)
      [] op = "Mul" -> NumMul(a, b, oc)
      [] op = "Div" -> NumDiv(a, b, oc)
      [] op = "Equal" -> NumEqual(a, b, oc)
      [] op = "LessThan" -> NumLessThan(a, b, oc)
      [] op = "GreaterThan" -> NumGreaterThan(a, b, oc)

\* The arms Add .. Div and Equal .. GreaterThan: read src1, read src2, compute,
\* write dest, each step ending the instruction when it fails.
Binary(m, op, dest, src1, src2, oc) ==
    LET r1 == get_register(m, src1)
        r2 == get_register(m, src2)
        v == Compute(op, r1.value, r2.value, oc)
    IN  IF ~r1.ok THEN Fail(m, r1.err)
        ELSE IF ~r2.ok THEN Fail(m, r2.err)
        ELSE IF v.panic THEN Fail(m, Panic("arithmetic"))
        ELSE set_register(m, dest, v.value)

\* Halt leaving pc where it is
halt_noop(m) == m


\* Halt setting pc past the length of the program
halt_past_end(m) == [m EXCEPT !.pc = Len(program) + 1]

halt(m) == [m EXCEPT !.pc = Len(program)]

\* ConditionalJump with the polarity inverted: taken on a non-zero value
conditional_jump_nonzero(m, cond, target) ==
    LET r == get_register(m, cond)
    IN  IF ~r.ok THEN Fail(m, r.err)
        ELSE IF r.value # 0 THEN jump(m, target)
        ELSE m

conditional_jump(m, cond, target) ==
    LET r == get_register(m, cond)
    IN  IF ~r.ok THEN Fail(m, r.err)
        ELSE IF r.value = 0 THEN jump(m, target)
        ELSE m

load(m, dest, var) ==
    IF var \notin DOMAIN m.variables
    THEN Fail(m, VariableMissing(var))
    ELSE set_register(m, dest, m.variables[var])

\* Store that keeps the binding a name already has
store_first_binding(m, src, var) ==
    LET r == get_register(m, src)
    IN  IF ~r.ok THEN Fail(m, r.err)
        ELSE IF var \in DOMAIN m.variables THEN m
        ELSE [m EXCEPT !.variables = Insert(@, var, r.value)]

store(m, src, var) ==
    LET r == get_register(m, src)
    IN  IF ~r.ok THEN Fail(m, r.err)
        ELSE [m EXCEPT !.variables = Insert(@, var, r.value)]

print(m, src) ==
    LET r == get_register(m, src)
    IN  IF ~r.ok THEN Fail(m, r.err) ELSE m


\* Not clearing dest before src is read
not_write_first(m, dest, src) ==
    LET w == set_register(m, dest, 0)
        r == get_register(w, src)
    IN  IF w.result # Running THEN w
        ELSE IF ~r.ok THEN Fail(w, r.err)
        ELSE set_register(w, dest, IF r.value = 0 THEN 1 ELSE 0)

not(m, dest, src) ==
    LET r == get_register(m, src)
    IN  IF ~r.ok THEN Fail(m, r.err)
        ELSE set_register(m, dest, IF r.value = 0 THEN 1 ELSE 0)

\* Mov{dest, src}, "Copy the value from register `src` to `dest`": the arm of
\* the machine that instruction.rs and test_mov belong to
mov(m, dest, src) ==
    LET r == get_register(m, src)
    IN  IF ~r.ok THEN Fail(m, r.err)
        ELSE set_register(m, dest, r.value)

execute_instruction(m, instr, oc) ==
    CASE instr.op = "LoadImm" -> set_register(m, instr.dest, instr.value)
      [] instr.op \in BinaryOps ->
            Binary(m, instr.op, instr.dest, instr.src1, instr.src2, oc)
      [] instr.op = "Print" -> print(m, instr.src1)
      [] instr.op = "Jump" -> jump(m, instr.addr)
      [] instr.op = "Call" -> call(m, instr.addr)
      [] instr.op = "ConditionalJump" -> conditional_jump(m, instr.src1, instr.addr)
      [] instr.op = "Return" -> ret(m)
      [] instr.op = "Store" -> store(m, instr.src1, instr.var)
      [] instr.op = "Load" -> load(m, instr.dest, instr.var)
      [] instr.op = "Not" -> not(m, instr.dest, instr.src1)
      [] instr.op = "Mov" -> mov(m, instr.dest, instr.src1)
      [] instr.op = "Halt" -> halt(m)

----------------------------------------------------------------------------
(* The programs run is given *)

RegIdx == {0, NumRegs - 1, NumRegs}       \* first, last and first invalid index
Targets == 0 .. MaxProgLen                \* MaxProgLen is past every program
ImmValues == 0 .. MaxImm
VarNames == {"x"}

\* control flow over register 0
CtlInstrs ==
    {Jump(a) : a \in Targets} \cup {Call(a) : a \in Targets}
    \cup {ConditionalJump(0, a) : a \in Targets}
    \cup {LoadImm(0, v) : v \in ImmValues}
    \cup {Return, Halt}

\* operand triples with at most one operand off register 0
Triples ==
    {<<0, 0, 0>>} \cup {<<i, 0, 0>> : i \in RegIdx} \cup {<<0, i, 0>> : i \in RegIdx}
    \cup {<<0, 0, i>> : i \in RegIdx}

\* every instruction that addresses a register
RegInstrs ==
    {LoadImm(d, v) : d \in RegIdx, v \in ImmValues}
    \cup {Arith(op, t[1], t[2], t[3]) : op \in BinaryOps, t \in Triples}
    \cup {PrintI(s) : s \in RegIdx}
    \cup {ConditionalJump(c, a) : c \in RegIdx, a \in {0, MaxProgLen}}
    \cup {Store(s, v) : s \in RegIdx, v \in VarNames}
    \cup {Load(d, v) : d \in RegIdx, v \in VarNames}
    \cup {Not(d, 0) : d \in RegIdx} \cup {Not(0, s) : s \in RegIdx}
    \cup {Mov(d, 0) : d \in RegIdx} \cup {Mov(0, s) : s \in RegIdx}

\* what may precede the register instruction under test
SetupInstrs ==
    {LoadImm(0, v) : v \in (ImmValues \ {0}) \cup {IntMax}}
    \cup {Store(0, v) : v \in VarNames}
    \cup {Call(MaxProgLen - 1)}

SeqsUpTo(S, n) == UNION {[1 .. k -> S] : k \in 0 .. n}

Programs ==
    (SeqsUpTo(CtlInstrs, MaxProgLen) \ {<<>>})
    \cup {s \o <<i>> : s \in SeqsUpTo(SetupInstrs, MaxProgLen - 1), i \in RegInstrs}

----------------------------------------------------------------------------
(* VM::new and VM::run *)

\* parse_ir and assemble are not called, and there is no evaluation stack
ExtIdle ==
    /\ input = <<>>
    /\ lineno = 0
    /\ presult = [kind |-> "Idle", line |-> 0]
    /\ aresult = [kind |-> "Idle", label |-> <<>>]
    /\ stack = <<>>
    /\ printed = <<>>

LowerIdle ==
    /\ ir = <<>>
    /\ pos = 0
    /\ output = <<>>
    /\ control_stack = <<>>
    /\ lresult = "Idle"

\* VM::new(program, num_registers)
Init ==
    /\ program \in Programs
    /\ pc = 0
    /\ registers = [i \in 1 .. NumRegs |-> 0]
    /\ call_stack = <<>>
    /\ variables = <<>>
    /\ result = Running
    /\ last = -1
    /\ steps = 0
    /\ ncalls = 0
    /\ nrets = 0
    /\ LowerIdle
    /\ ExtIdle

\* the loop with the result of execute_instruction dropped
InLoop_ignoring_failure == result.kind # "Ok" /\ pc < Len(program)

\* the while condition of run, and the ? after execute_instruction
InLoop == result = Running /\ pc < Len(program)

\* one iteration of the loop of run: fetch, advance pc, execute
Step ==
    /\ InLoop
    /\ steps < MaxSteps
    /\ \E oc \in BOOLEAN :
        LET instr == program[pc + 1]
            m0 == [pc |-> pc + 1, registers |-> registers,
                   call_stack |-> call_stack, variables |-> variables,
                   result |-> Running]
            m1 == execute_instruction(m0, instr, oc)
            done == m1.result = Running
        IN  /\ pc' = m1.pc
            /\ registers' = m1.registers
            /\ call_stack' = m1.call_stack
            /\ variables' = m1.variables
            /\ result' = m1.result
            /\ last' = pc
            /\ steps' = steps + 1
            /\ ncalls' = IF instr.op = "Call" /\ done THEN ncalls + 1 ELSE ncalls
            /\ nrets' = IF instr.op = "Return" /\ done THEN nrets + 1 ELSE nrets
    /\ UNCHANGED <<program, ir, pos, output, control_stack, lresult>>
    /\ UNCHANGED extvars

\* the loop ends and run returns Ok(())
Finish ==
    /\ result = Running
    /\ pc >= Len(program)
    /\ result' = Ok
    /\ UNCHANGED <<program, pc, registers, call_stack, variables,
                   last, steps, ncalls, nrets, ir, pos, output, control_stack, lresult>>
    /\ UNCHANGED extvars

Next == Step \/ Finish

Spec == Init /\ [][Next]_vars

----------------------------------------------------------------------------
(* Symbolic instructions (src/src/ir.rs:6-40).  A label or variable name is  *)
(* the sequence of its characters, "" is <<>>.                               *)

IRIns(op, value, name) == [op |-> op, value |-> value, name |-> name]

Markers == {"If", "Else", "EndIf", "While", "EndWhile", "Do", "EndDo"}
Marker(op) == IRIns(op, 0, <<>>)
IRPush(value) == IRIns("Push", value, <<>>)
IRAdd == IRIns("Add", 0, <<>>)
IRJump(name) == IRIns("Jump", 0, name)
IRConditionalJump(name) == IRIns("ConditionalJump", 0, name)
IRLabel(name) == IRIns("Label", 0, name)

Digit(d) ==
    CASE d = 0 -> "0" [] d = 1 -> "1" [] d = 2 -> "2" [] d = 3 -> "3"
      [] d = 4 -> "4" [] d = 5 -> "5" [] d = 6 -> "6" [] d = 7 -> "7"
      [] d = 8 -> "8" [] d = 9 -> "9"

\* the decimal digits usize's Display writes
RECURSIVE Decimal(_)
Decimal(n) == IF n < 10 THEN <<Digit(n)>> ELSE Decimal(n \div 10) \o <<Digit(n % 10)>>

\* format!("L{}", n)
\* format!("L{}", ..) printing the same number whatever the length
FormatL_fixed(n) == <<"L">> \o Decimal(0)

FormatL(n) == <<"L">> \o Decimal(n)

\* an entry of control_stack: (kind, index, label)
Entry(kind, index, label) == [kind |-> kind, index |-> index, label |-> label]

\* Vec::pop: the popped entry, if any, and the vector left
Pop(vec) ==
    IF vec = <<>>
    THEN [some |-> FALSE, entry |-> Entry("", 0, <<>>), rest |-> <<>>]
    ELSE [some |-> TRUE, entry |-> vec[Len(vec)],
          rest |-> SubSeq(vec, 1, Len(vec) - 1)]

\* output[index] = inst
Patch(out, index, inst) == [out EXCEPT ![index + 1] = inst]

LPanic(st, text) == [st EXCEPT !.lresult = text]

\* st is [output, control_stack, lresult]
lower_if(st) ==
    [st EXCEPT
        !.control_stack = Append(@, Entry("if", Len(st.output), <<>>)),
        !.output = Append(@, IRConditionalJump(<<>>))]

\* Else with the else label emitted before the jump that skips the else branch
lower_else_label_first(st) ==
    LET p == Pop(st.control_stack)
        else_label == FormatL(Len(st.output))
    IN  IF p.some /\ p.entry.kind = "if"
        THEN [st EXCEPT
                !.output = Patch(@, p.entry.index, IRConditionalJump(else_label))
                           \o <<IRLabel(else_label), IRJump(<<>>)>>,
                !.control_stack =
                    Append(p.rest, Entry("endif", Len(st.output) + 1, <<>>))]
        ELSE LPanic([st EXCEPT !.control_stack = p.rest], "ELSE without matching IF")

lower_else(st) ==
    LET p == Pop(st.control_stack)
        else_label == FormatL(Len(st.output))
    IN  IF p.some /\ p.entry.kind = "if"
        THEN [st EXCEPT
                !.output = Patch(@, p.entry.index, IRConditionalJump(else_label))
                           \o <<IRJump(<<>>), IRLabel(else_label)>>,
                !.control_stack =
                    Append(p.rest, Entry("endif", Len(st.output), <<>>))]
        ELSE LPanic([st EXCEPT !.control_stack = p.rest], "ELSE without matching IF")

\* The if-let pops, and when the popped entry is not an endif entry the else-if
\* pops again.
lower_endif(st) ==
    LET p == Pop(st.control_stack)
        q == Pop(p.rest)
        endif_label == FormatL(Len(st.output))
    IN  IF p.some /\ p.entry.kind = "endif"
        THEN [st EXCEPT
                !.output = Append(Patch(@, p.entry.index, IRJump(endif_label)),
                                  IRLabel(endif_label)),
                !.control_stack = p.rest]
        ELSE IF q.some /\ q.entry.kind = "if"
        THEN [st EXCEPT
                !.output = Append(Patch(@, q.entry.index,
                                        IRConditionalJump(endif_label)),
                                  IRLabel(endif_label)),
                !.control_stack = q.rest]
        ELSE LPanic([st EXCEPT !.control_stack = q.rest],
                    "ENDIF without matching IF/ELSE")

lower_while(st) ==
    LET loop_start == FormatL(Len(st.output))
        cond_jump_index == Len(st.output) + 1
    IN  [st EXCEPT
            !.output = @ \o <<IRLabel(loop_start), IRConditionalJump(<<>>)>>,
            !.control_stack = Append(@, Entry("while", cond_jump_index, loop_start))]

\* EndWhile with the jump going to the exit label: the loop is not repeated
lower_endwhile_no_repeat(st) ==
    LET p == Pop(st.control_stack)
        exit_label == FormatL(Len(st.output) + 1)
    IN  IF p.some /\ p.entry.kind = "while"
        THEN [st EXCEPT
                !.output = Append(Patch(Append(@, IRJump(exit_label)),
                                        p.entry.index,
                                        IRConditionalJump(exit_label)),
                                  IRLabel(exit_label)),
                !.control_stack = p.rest]
        ELSE LPanic([st EXCEPT !.control_stack = p.rest],
                    "ENDWHILE without matching WHILE")

lower_endwhile(st) ==
    LET p == Pop(st.control_stack)
        exit_label == FormatL(Len(st.output) + 1)
    IN  IF p.some /\ p.entry.kind = "while"
        THEN [st EXCEPT
                !.output = Append(Patch(Append(@, IRJump(p.entry.label)),
                                        p.entry.index,
                                        IRConditionalJump(exit_label)),
                                  IRLabel(exit_label)),
                !.control_stack = p.rest]
        ELSE LPanic([st EXCEPT !.control_stack = p.rest],
                    "ENDWHILE without matching WHILE")

lower_do(st) ==
    LET loop_start == FormatL(Len(st.output))
    IN  [st EXCEPT
            !.output = Append(@, IRLabel(loop_start)),
            !.control_stack = Append(@, Entry("do", Len(st.output) + 1, loop_start))]

\* EndDo with the two jumps exchanged: the loop repeats on zero
lower_enddo_inverted(st) ==
    LET p == Pop(st.control_stack)
        exit_label == FormatL(Len(st.output))
    IN  IF p.some /\ p.entry.kind = "do"
        THEN [st EXCEPT
                !.output = @ \o <<IRConditionalJump(p.entry.label),
                                  IRJump(exit_label), IRLabel(exit_label)>>,
                !.control_stack = p.rest]
        ELSE LPanic([st EXCEPT !.control_stack = p.rest],
                    "ENDDO without matching DO")

lower_enddo(st) ==
    LET p == Pop(st.control_stack)
        exit_label == FormatL(Len(st.output))
    IN  IF p.some /\ p.entry.kind = "do"
        THEN [st EXCEPT
                !.output = @ \o <<IRConditionalJump(exit_label),
                                  IRJump(p.entry.label), IRLabel(exit_label)>>,
                !.control_stack = p.rest]
        ELSE LPanic([st EXCEPT !.control_stack = p.rest],
                    "ENDDO without matching DO")

\* the catch-all arm dropping the instruction
lower_other_dropped(st, inst) == st

lower_other(st, inst) == [st EXCEPT !.output = Append(@, inst)]

\* the match of the for loop
lower_inst(st, inst) ==
    CASE inst.op = "If" -> lower_if(st)
      [] inst.op = "Else" -> lower_else(st)
      [] inst.op = "EndIf" -> lower_endif(st)
      [] inst.op = "While" -> lower_while(st)
      [] inst.op = "EndWhile" -> lower_endwhile(st)
      [] inst.op = "Do" -> lower_do(st)
      [] inst.op = "EndDo" -> lower_enddo(st)
      [] OTHER -> lower_other(st, inst)

----------------------------------------------------------------------------
(* lower_control_flow as a state machine over its for loop *)

MaxIrLen == 4

\* a label of the text may be any token, one spelled like a generated label too
UserLabels == {<<"a">>, <<"L", "0">>}

IRInstrs ==
    {Marker(op) : op \in Markers}
    \cup {IRPush(1), IRAdd} \cup {IRLabel(n) : n \in UserLabels}

VmIdle ==
    /\ program = <<>>
    /\ pc = 0
    /\ registers = <<>>
    /\ call_stack = <<>>
    /\ variables = <<>>
    /\ result = Res("Idle", "", -1, "")
    /\ last = -1
    /\ steps = 0
    /\ ncalls = 0
    /\ nrets = 0

LowerInit ==
    /\ ir \in SeqsUpTo(IRInstrs, MaxIrLen)
    /\ pos = 0
    /\ output = <<>>
    /\ control_stack = <<>>
    /\ lresult = "Running"
    /\ VmIdle
    /\ ExtIdle

\* one iteration of the for loop
LowerStep ==
    /\ lresult = "Running"
    /\ pos < Len(ir)
    /\ LET st == lower_inst([output |-> output, control_stack |-> control_stack,
                             lresult |-> "Running"], ir[pos + 1])
       IN  /\ output' = st.output
           /\ control_stack' = st.control_stack
           /\ lresult' = st.lresult
    /\ pos' = pos + 1
    /\ UNCHANGED <<ir, program, pc, registers, call_stack, variables, result,
                   last, steps, ncalls, nrets>>
    /\ UNCHANGED extvars

\* after the loop: the check of control_stack, then output is returned
LowerFinish ==
    /\ lresult = "Running"
    /\ pos = Len(ir)
    /\ lresult' = IF control_stack # <<>>
                  THEN "Mismatched control flow constructs"
                  ELSE "Returned"
    /\ UNCHANGED <<ir, pos, output, control_stack, program, pc, registers,
                   call_stack, variables, result, last, steps, ncalls, nrets>>
    /\ UNCHANGED extvars

LowerNext == LowerStep \/ LowerFinish

SpecLower == LowerInit /\ [][LowerNext]_vars

----------------------------------------------------------------------------
(* Properties of the VM, checked under Spec *)

\* the instruction the next loop iteration fetches
Cur == program[pc + 1]

\* the instruction fetched last
LastInstr == program[last + 1]

\* the next iteration takes a jump: Jump, Call, or ConditionalJump on a zero
TakesJump ==
    \/ Cur.op \in {"Jump", "Call"}
    \/ /\ Cur.op = "ConditionalJump"
       /\ Cur.src1 < Len(registers)
       /\ registers[Cur.src1 + 1] = 0

\* run has ended without returning Ok
Failed == result.kind \notin {"Running", "Ok", "Idle"}

\* C1: a Jump, a Call or a taken ConditionalJump whose target is at or past the
\* program length makes run return ProgramCounterOutOfBounds; pc keeps its
\* post-increment value, Call pushes no frame, nothing else changes.
C1_TargetValidatedFirst ==
    [][(InLoop /\ TakesJump /\ Cur.addr >= Len(program))
        => /\ result' = ProgramCounterOutOfBounds
           /\ pc' = pc + 1
           /\ call_stack' = call_stack
           /\ registers' = registers
           /\ variables' = variables]_vars

\* a Call past the program has failed below an earlier frame, which is kept
C1_Witness ==
    /\ result = ProgramCounterOutOfBounds
    /\ LastInstr.op = "Call"
    /\ LastInstr.addr >= Len(program)
    /\ pc = last + 1
    /\ Len(call_stack) = 1

\* C2: the depth of the call stack is the number of executed Calls minus the
\* number of executed Returns at every step, so a run that reaches Halt with
\* every Call matched by a Return ends with an empty call stack.
C2_CallReturnBalance ==
    /\ Len(call_stack) = ncalls - nrets
    /\ (result = Ok /\ last >= 0 /\ LastInstr.op = "Halt" /\ ncalls = nrets)
            => call_stack = <<>>

\* a run that called, returned and halted
C2_Witness ==
    /\ result = Ok
    /\ last >= 0
    /\ LastInstr.op = "Halt"
    /\ ncalls >= 1
    /\ ncalls = nrets
    /\ call_stack = <<>>

\* every frame holds the index after a Call of the program
FramesFollowCalls ==
    \A k \in 1 .. Len(call_stack) :
        LET ra == call_stack[k].return_address
        IN  ra >= 1 /\ ra <= Len(program) /\ program[ra].op = "Call"

\* C3: a Call at index i with a valid target pushes exactly one frame holding
\* i + 1 and sets pc to the target; Return pops the top frame and sets pc to its
\* return address, the index after the Call that pushed it.
C3_CallPushesNextIndex ==
    /\ []FramesFollowCalls
    /\ [][/\ (InLoop /\ Cur.op = "Call" /\ Cur.addr < Len(program))
                => /\ call_stack' = Append(call_stack, Frame(pc + 1))
                   /\ pc' = Cur.addr
                   /\ result' = Running
          /\ (InLoop /\ Cur.op = "Return" /\ call_stack # <<>>)
                => /\ pc' = call_stack[Len(call_stack)].return_address
                   /\ call_stack' = SubSeq(call_stack, 1, Len(call_stack) - 1)
                   /\ result' = Running]_vars

\* a Return has just resumed after the Call at index pc - 1, which is not the
\* instruction before the Return
C3_Witness ==
    /\ result = Running
    /\ last >= 0
    /\ LastInstr.op = "Return"
    /\ nrets = 1
    /\ pc >= 1
    /\ pc # last + 1
    /\ program[pc].op = "Call"
    /\ call_stack = <<>>

\* C4: Return on an empty call stack makes run return CallStackEmpty; pc keeps
\* its post-increment value and nothing else changes.
C4_ReturnOnEmptyStackFails ==
    [][(InLoop /\ Cur.op = "Return" /\ call_stack = <<>>)
        => /\ result' = CallStackEmpty
           /\ pc' = pc + 1
           /\ call_stack' = <<>>
           /\ registers' = registers
           /\ variables' = variables]_vars

\* a Return failed after an earlier Call and Return had emptied the stack again
C4_Witness ==
    /\ result = CallStackEmpty
    /\ LastInstr.op = "Return"
    /\ nrets = 1
    /\ ncalls = 1

\* C5: Halt sets pc to the program length and changes nothing else; the next
\* step is the return of Ok, with no instruction fetched in between.
C5_HaltEndsRun ==
    [][/\ (InLoop /\ Cur.op = "Halt")
            => /\ pc' = Len(program)
               /\ result' = Running
               /\ UNCHANGED <<registers, variables, call_stack>>
       /\ (result = Running /\ last >= 0 /\ LastInstr.op = "Halt")
            => /\ result' = Ok
               /\ steps' = steps
               /\ UNCHANGED <<pc, registers, variables, call_stack>>]_vars

\* run returned Ok after a Halt that instructions follow, with a register set
C5_Witness ==
    /\ result = Ok
    /\ last >= 0
    /\ LastInstr.op = "Halt"
    /\ last + 1 < Len(program)
    /\ registers[1] # 0
    /\ steps < Len(program)

\* the register indices an instruction addresses
RegOperands(instr) ==
    CASE instr.op = "LoadImm" -> {instr.dest}
      [] instr.op \in BinaryOps -> {instr.src1, instr.src2, instr.dest}
      [] instr.op \in {"Print", "ConditionalJump", "Store"} -> {instr.src1}
      [] instr.op = "Load" -> {instr.dest}
      [] instr.op \in {"Not", "Mov"} -> {instr.src1, instr.dest}
      [] OTHER -> {}

InvalidOperands(instr) == {i \in RegOperands(instr) : i >= Len(registers)}

\* C6: every instruction with a register operand at or past the register count
\* makes run return RegisterOutOfBounds naming such an index.
C6_InvalidRegisterReported ==
    [][(InLoop /\ InvalidOperands(Cur) # {})
        => /\ result'.kind = "RegisterOutOfBounds"
           /\ result'.text = "invalid register index"
           /\ result'.index \in InvalidOperands(Cur)]_vars

\* C7: Load of a name never stored makes run fail with VariableNotFound, a kind
\* other than RegisterOutOfBounds, and leaves the registers as they were.
C7_LoadOfMissingVariable ==
    [][(InLoop /\ Cur.op = "Load" /\ Cur.var \notin DOMAIN variables)
        => /\ result'.kind = "VariableNotFound"
           /\ registers' = registers]_vars

\* C8: ConditionalJump{cond, target} takes the jump exactly when register cond
\* holds zero: pc becomes target (run fails as in C1 when target is past the
\* program); on any non-zero value pc is the index after the instruction and
\* run goes on.
C8_JumpTakenOnZero ==
    [][(InLoop /\ Cur.op = "ConditionalJump" /\ Cur.src1 < Len(registers))
        => IF registers[Cur.src1 + 1] = 0
           THEN \/ Cur.addr < Len(program) /\ pc' = Cur.addr /\ result' = Running
                \/ Cur.addr >= Len(program) /\ result' = ProgramCounterOutOfBounds
           ELSE pc' = pc + 1 /\ result' = Running]_vars

\* a ConditionalJump on a non-zero register fell through, its target elsewhere
C8_Witness ==
    /\ result = Running
    /\ last >= 0
    /\ LastInstr.op = "ConditionalJump"
    /\ registers[LastInstr.src1 + 1] # 0
    /\ pc = last + 1
    /\ LastInstr.addr # pc

\* C9: once an instruction has failed nothing more happens: no instruction is
\* fetched, the state of the machine and the failure returned stay as they are.
C9_FailureIsTerminal ==
    [][Failed => UNCHANGED vmvars]_vars

\* a failure with pc still inside the program
C9_Witness ==
    /\ Failed
    /\ result.kind # "Panic"
    /\ pc < Len(program)
    /\ steps >= 2

----------------------------------------------------------------------------
(* assemble (src/src/ir.rs:153-223): label resolution after lowering *)

IRCall(name) == IRIns("Call", 0, name)

\* an instruction of the final sequence: Push(value), Jump(addr), Store(var), ...
SIns(op, value, addr, var) == [op |-> op, value |-> value, addr |-> addr, var |-> var]

\* the ways assemble ends: Assembled, or a panic; label is the name the
\* "undefined label: {}" panic prints
ARes(kind, label) == [kind |-> kind, label |-> label]

LabelRefs == {"Jump", "Call", "ConditionalJump"}

\* the first loop: curr_index counts the entries that are not labels, and every
\* Label(name) is inserted with the count reached
RECURSIVE label_pass_counting_labels(_, _, _)
label_pass_counting_labels(lowered_ir, label_map, curr_index) ==
    IF lowered_ir = <<>> THEN label_map
    ELSE LET inst == Head(lowered_ir)
         IN  IF inst.op = "Label"
             THEN label_pass_counting_labels(Tail(lowered_ir),
                      Insert(label_map, inst.name, curr_index), curr_index + 1)
             ELSE label_pass_counting_labels(Tail(lowered_ir), label_map,
                                             curr_index + 1)

RECURSIVE label_pass_first_wins(_, _, _)
label_pass_first_wins(lowered_ir, label_map, curr_index) ==
    IF lowered_ir = <<>> THEN label_map
    ELSE LET inst == Head(lowered_ir)
         IN  IF inst.op = "Label"
             THEN label_pass_first_wins(Tail(lowered_ir),
                      IF inst.name \in DOMAIN label_map THEN label_map
                      ELSE Insert(label_map, inst.name, curr_index), curr_index)
             ELSE label_pass_first_wins(Tail(lowered_ir), label_map, curr_index + 1)

RECURSIVE label_pass(_, _, _)
label_pass(lowered_ir, label_map, curr_index) ==
    IF lowered_ir = <<>> THEN label_map
    ELSE LET inst == Head(lowered_ir)
         IN  IF inst.op = "Label"
             THEN label_pass(Tail(lowered_ir),
                             Insert(label_map, inst.name, curr_index), curr_index)
             ELSE label_pass(Tail(lowered_ir), label_map, curr_index + 1)

\* the arms of the second loop for Jump, Call and ConditionalJump: the index
\* of the label, or the panic for a name that is not in label_map
resolve_defaulting(inst, label_map, final_insts) ==
    [result |-> ARes("Running", <<>>),
     insts |-> Append(final_insts,
                      SIns(inst.op, 0,
                           IF inst.name \in DOMAIN label_map
                           THEN label_map[inst.name] ELSE 0, <<>>))]

resolve(inst, label_map, final_insts) ==
    IF inst.name \in DOMAIN label_map
    THEN [result |-> ARes("Running", <<>>),
          insts |-> Append(final_insts, SIns(inst.op, 0, label_map[inst.name], <<>>))]
    ELSE [result |-> ARes("undefined label", inst.name), insts |-> final_insts]

\* one iteration of the second loop
emit(inst, label_map, final_insts) ==
    CASE inst.op \in LabelRefs -> resolve(inst, label_map, final_insts)
      [] inst.op = "Label" ->
            [result |-> ARes("Running", <<>>), insts |-> final_insts]
      [] inst.op \in Markers ->
            [result |-> ARes("Unlowered control flow construct found", <<>>),
             insts |-> final_insts]
      [] inst.op = "Push" ->
            [result |-> ARes("Running", <<>>),
             insts |-> Append(final_insts, SIns("Push", inst.value, 0, <<>>))]
      [] inst.op \in {"Store", "Load"} ->
            [result |-> ARes("Running", <<>>),
             insts |-> Append(final_insts, SIns(inst.op, 0, 0, inst.name))]
      [] OTHER ->
            [result |-> ARes("Running", <<>>),
             insts |-> Append(final_insts, SIns(inst.op, 0, 0, <<>>))]

\* the second loop: a panic ends it, and final_insts is returned at the end
RECURSIVE emit_pass(_, _, _)
emit_pass(lowered_ir, label_map, final_insts) ==
    IF lowered_ir = <<>>
    THEN [result |-> ARes("Assembled", <<>>), insts |-> final_insts]
    ELSE LET e == emit(Head(lowered_ir), label_map, final_insts)
         IN  IF e.result.kind # "Running" THEN e
             ELSE emit_pass(Tail(lowered_ir), label_map, e.insts)

\* the two loops over the lowered sequence
assemble(lowered_ir) == emit_pass(lowered_ir, label_pass(lowered_ir, <<>>, 0), <<>>)

MaxAsmLen == 4

AsmInstrs ==
    {IRJump(<<"a">>), IRCall(<<"b">>), IRConditionalJump(<<"a">>),
     IRLabel(<<"a">>), IRLabel(<<"b">>), IRPush(1)}

\* assemble is called on a text whose parse is ir
AsmStart ==
    /\ pos = 0
    /\ output = <<>>
    /\ control_stack = <<>>
    /\ lresult = "Running"
    /\ VmIdle
    /\ input = <<>>
    /\ lineno = 0
    /\ presult = [kind |-> "Returned", line |-> 0]
    /\ aresult = ARes("Pending", <<>>)
    /\ stack = <<>>
    /\ printed = <<>>

AsmInit ==
    /\ ir \in SeqsUpTo(AsmInstrs, MaxAsmLen)
    /\ AsmStart

\* the part of assemble after lower_control_flow has returned
Assemble ==
    /\ lresult = "Returned"
    /\ aresult.kind = "Pending"
    /\ LET a == assemble(output)
       IN  /\ aresult' = a.result
           /\ program' = IF a.result.kind = "Assembled" THEN a.insts ELSE <<>>
    /\ UNCHANGED <<pc, registers, call_stack, variables, result, last, steps,
                   ncalls, nrets, ir, pos, output, control_stack, lresult,
                   input, lineno, presult, stack, printed>>

AsmNext == LowerStep \/ LowerFinish \/ Assemble

SpecAsm == AsmInit /\ [][AsmNext]_vars

----------------------------------------------------------------------------
(* The stack machine that runs the assembled sequence: pc, call stack and    *)
(* variables as in the register machine, operands on an evaluation stack.    *)

StackUnderflow(operation) == Res("StackUnderflow", operation, -1, "")
VariableNotFound == Res("VariableNotFound", "", -1, "")

\* what PRINT writes for an empty stack
EmptyStack == IntMin - 1

\* the last n values of the stack, oldest first; the machine fails when it
\* holds fewer
Top(m, n) == SubSeq(m.stack, Len(m.stack) - n + 1, Len(m.stack))
Drop(m, n) == SubSeq(m.stack, 1, Len(m.stack) - n)

\* Add .. Divide, Equal, LessThan, GreaterThan: pop the right operand, pop the
\* left operand, push left OP right
stack_binary(m, name, op, oc) ==
    IF Len(m.stack) < 2 THEN Fail(m, StackUnderflow(name))
    ELSE LET r == Compute(op, Top(m, 2)[1], Top(m, 2)[2], oc)
         IN  IF r.panic THEN Fail(m, Panic(name))
             ELSE [m EXCEPT !.stack = Append(Drop(m, 2), r.value)]

\* ConditionalJump(addr): pop the condition, and jump when it is zero
stack_conditional_jump(m, addr) ==
    IF m.stack = <<>> THEN Fail(m, StackUnderflow("ConditionalJump"))
    ELSE LET popped == [m EXCEPT !.stack = Drop(m, 1)]
         IN  IF Top(m, 1)[1] = 0 THEN jump(popped, addr) ELSE popped

stack_store(m, var) ==
    IF m.stack = <<>> THEN Fail(m, StackUnderflow("Store"))
    ELSE [m EXCEPT !.stack = Drop(m, 1),
                   !.variables = Insert(@, var, Top(m, 1)[1])]

stack_load(m, var) ==
    IF var \in DOMAIN m.variables
    THEN [m EXCEPT !.stack = Append(@, m.variables[var])]
    ELSE Fail(m, VariableNotFound)

stack_not(m) ==
    IF m.stack = <<>> THEN Fail(m, StackUnderflow("Not"))
    ELSE [m EXCEPT !.stack = Append(Drop(m, 1), IF Top(m, 1)[1] = 0 THEN 1 ELSE 0)]

stack_dup(m) ==
    IF m.stack = <<>> THEN Fail(m, StackUnderflow("Dup"))
    ELSE [m EXCEPT !.stack = Append(@, Top(m, 1)[1])]

stack_swap(m) ==
    IF Len(m.stack) < 2 THEN Fail(m, StackUnderflow("Swap"))
    ELSE [m EXCEPT !.stack = Drop(m, 2) \o <<Top(m, 2)[2], Top(m, 2)[1]>>]

stack_pop(m) ==
    IF m.stack = <<>> THEN Fail(m, StackUnderflow("Pop"))
    ELSE [m EXCEPT !.stack = Drop(m, 1)]

\* the match of the stack machine, on m = the machine after pc += 1
stack_execute_instruction(m, instr, oc) ==
    CASE instr.op = "Push" -> [m EXCEPT !.stack = Append(@, instr.value)]
      [] instr.op = "Add" -> stack_binary(m, "Add", "Add", oc)
      [] instr.op = "Subtract" -> stack_binary(m, "Subtract", "Sub", oc)
      [] instr.op = "Multiply" -> stack_binary(m, "Multiply", "Mul", oc)
      [] instr.op = "Divide" -> stack_binary(m, "Divide", "Div", oc)
      [] instr.op \in {"Equal", "LessThan", "GreaterThan"} ->
            stack_binary(m, instr.op, instr.op, oc)
      [] instr.op = "Print" -> m
      [] instr.op = "Jump" -> jump(m, instr.addr)
      [] instr.op = "Call" -> call(m, instr.addr)
      [] instr.op = "ConditionalJump" -> stack_conditional_jump(m, instr.addr)
      [] instr.op = "Return" -> ret(m)
      [] instr.op = "Store" -> stack_store(m, instr.var)
      [] instr.op = "Load" -> stack_load(m, instr.var)
      [] instr.op = "Not" -> stack_not(m)
      [] instr.op = "Dup" -> stack_dup(m)
      [] instr.op = "Swap" -> stack_swap(m)
      [] instr.op = "Pop" -> stack_pop(m)
      [] instr.op = "Halt" -> halt(m)

\* VM::new(instructions) followed by run(): pc = 0 and everything empty
RunStart ==
    /\ aresult.kind = "Assembled"
    /\ result.kind = "Idle"
    /\ result' = Running
    /\ UNCHANGED <<program, pc, registers, call_stack, variables, last, steps,
                   ncalls, nrets, ir, pos, output, control_stack, lresult,
                   input, lineno, presult, aresult, stack, printed>>

\* one iteration of the loop of run: fetch, advance pc, execute
RunStep ==
    /\ aresult.kind = "Assembled"
    /\ InLoop
    /\ \E oc \in BOOLEAN :
        LET instr == program[pc + 1]
            m0 == [pc |-> pc + 1, stack |-> stack, call_stack |-> call_stack,
                   variables |-> variables, result |-> Running]
            m1 == stack_execute_instruction(m0, instr, oc)
        IN  /\ pc' = m1.pc
            /\ stack' = m1.stack
            /\ call_stack' = m1.call_stack
            /\ variables' = m1.variables
            /\ result' = m1.result
            /\ printed' = IF instr.op = "Print"
                          THEN Append(printed, IF stack = <<>> THEN EmptyStack
                                               ELSE stack[Len(stack)])
                          ELSE printed
            /\ last' = pc
            /\ steps' = steps + 1
    /\ UNCHANGED <<program, registers, ncalls, nrets, ir, pos, output,
                   control_stack, lresult, input, lineno, presult, aresult>>

\* the loop ends and run returns Ok(())
RunFinish ==
    /\ aresult.kind = "Assembled"
    /\ result = Running
    /\ pc >= Len(program)
    /\ result' = Ok
    /\ UNCHANGED <<program, pc, registers, call_stack, variables, last, steps,
                   ncalls, nrets, ir, pos, output, control_stack, lresult,
                   input, lineno, presult, aresult, stack, printed>>

IRPrintI == IRIns("Print", 0, <<>>)
IREqual == IRIns("Equal", 0, <<>>)

MaxBranch == 2
MaxConds == 3

\* PUSH of each value of s, in order
Pushes(s) == [k \in 1 .. Len(s) |-> IRPush(s[k])]

\* n times PRINT
Prints(n) == [k \in 1 .. n |-> IRPrintI]

\* a condition: a pushed value, or the comparison of two pushed values
Conds ==
    {<<IRPush(c)>> : c \in 0 .. 2}
    \cup {<<IRPush(a), IRPush(b), IREqual>> : a, b \in 0 .. 1}

\* <cond> IF <then> ELSE <else> ENDIF PUSH 6: the branches push values of
\* their own
IfElsePrograms ==
    {c \o <<Marker("If")>> \o t \o <<Marker("Else")>> \o e
       \o <<Marker("EndIf"), IRPush(6)>> :
        c \in Conds,
        t \in SeqsUpTo({IRPush(2), IRPush(3)}, MaxBranch),
        e \in SeqsUpTo({IRPush(4), IRPush(5)}, MaxBranch)}

\* the values the conditions of a loop will find on the stack
CondValues == UNION {[1 .. k -> 0 .. 2] : k \in 1 .. MaxConds}

\* PUSH .. DO PRINT .. ENDDO PUSH 6
DoPrograms ==
    {Pushes(cs) \o <<Marker("Do")>> \o Prints(b) \o <<Marker("EndDo"), IRPush(6)>> :
        cs \in CondValues, b \in 0 .. MaxBranch}

\* PUSH .. WHILE PRINT .. ENDWHILE PUSH 6
WhilePrograms ==
    {Pushes(cs) \o <<Marker("While")>> \o Prints(b)
       \o <<Marker("EndWhile"), IRPush(6)>> :
        cs \in CondValues, b \in 0 .. MaxBranch}

RunInit ==
    /\ ir \in IfElsePrograms \cup DoPrograms \cup WhilePrograms
    /\ AsmStart

RunNext ==
    \/ LowerStep
    \/ LowerFinish
    \/ Assemble
    \/ RunStart
    \/ RunStep
    \/ RunFinish

SpecRun == RunInit /\ [][RunNext]_vars

----------------------------------------------------------------------------
(* parse_ir (src/src/ir.rs:42-151).  A line of the text is the sequence of   *)
(* its whitespace-separated tokens; the token ";" starts a comment.          *)

\* the ways parse_ir ends: Returned, or a panic "L{line}: ..."
PRes(kind, line) == [kind |-> kind, line |-> line]

\* line.split(';').next(): the tokens before the comment
RECURSIVE Strip(_)
Strip(line) ==
    IF line = <<>> \/ Head(line) = ";" THEN <<>>
    ELSE <<Head(line)>> \o Strip(Tail(line))

\* str::to_uppercase on the spellings of the texts
to_uppercase(token) ==
    CASE token = "push" -> "PUSH"
      [] token = "add" -> "ADD"
      [] token = "label" -> "LABEL"
      [] token = "Halt" -> "HALT"
      [] token = "foo" -> "FOO"
      [] token = "x" -> "X"
      [] OTHER -> token

\* i32::from_str_radix(token, 10)
from_str_radix(token) ==
    CASE token = "0" -> [ok |-> TRUE, num |-> 0]
      [] token = "1" -> [ok |-> TRUE, num |-> 1]
      [] token = "-1" -> [ok |-> TRUE, num |-> -1]
      [] OTHER -> [ok |-> FALSE, num |-> 0]

\* str::to_string into the characters a name is in the symbolic instructions
to_string(token) ==
    CASE token = "L0" -> <<"L", "0">>
      [] token = "-1" -> <<"-", "1">>
      [] OTHER -> <<token>>

\* the mnemonics of the arms with an operand, and of the arms without
OperandArms ==
    ("PUSH" :> "Push") @@ ("JUMP" :> "Jump") @@ ("CALL" :> "Call")
    @@ ("CJUMP" :> "ConditionalJump") @@ ("STORE" :> "Store")
    @@ ("LOAD" :> "Load") @@ ("LABEL" :> "Label")

PlainArms ==
    ("ADD" :> "Add") @@ ("SUBTRACT" :> "Subtract") @@ ("MULTIPLY" :> "Multiply")
    @@ ("DIVIDE" :> "Divide") @@ ("PRINT" :> "Print") @@ ("RETURN" :> "Return")
    @@ ("HALT" :> "Halt") @@ ("EQUAL" :> "Equal") @@ ("LT" :> "LessThan")
    @@ ("GT" :> "GreaterThan") @@ ("DUP" :> "Dup") @@ ("SWAP" :> "Swap")
    @@ ("POP" :> "Pop") @@ ("IF" :> "If") @@ ("ELSE" :> "Else")
    @@ ("ENDIF" :> "EndIf") @@ ("WHILE" :> "While") @@ ("ENDWHILE" :> "EndWhile")
    @@ ("DO" :> "Do") @@ ("ENDDO" :> "EndDo") @@ ("NOT" :> "Not")

\* a state of the for loop: st = [ir_insts, presult]
PPanic(st, kind, lno) == [st EXCEPT !.presult = PRes(kind, lno + 1)]

\* the arm PUSH: the operand count, then the number
parse_push(st, parts, lno) ==
    IF Len(parts) # 2 THEN PPanic(st, "requires one operand", lno)
    ELSE IF ~from_str_radix(parts[2]).ok
         THEN PPanic(st, "invalid number for PUSH", lno)
         ELSE [st EXCEPT !.ir_insts = Append(@, IRPush(from_str_radix(parts[2]).num))]

\* the arms JUMP, CALL, CJUMP, STORE, LOAD and LABEL
parse_operand(st, op, parts, lno) ==
    IF Len(parts) # 2 THEN PPanic(st, "requires one operand", lno)
    ELSE [st EXCEPT !.ir_insts = Append(@, IRIns(op, 0, to_string(parts[2])))]

\* the arms that look at parts[0] only
parse_plain(st, op, parts, lno) ==
    [st EXCEPT !.ir_insts = Append(@, IRIns(op, 0, <<>>))]

\* the body of the for loop for the line numbered lno (from 0)
parse_line(st, line, lno) ==
    LET parts == Strip(line)
        mnemonic == to_uppercase(parts[1])
    IN  IF parts = <<>> THEN st
        ELSE CASE mnemonic = "PUSH" -> parse_push(st, parts, lno)
               [] mnemonic \in DOMAIN PlainArms ->
                    parse_plain(st, PlainArms[mnemonic], parts, lno)
               [] mnemonic \in DOMAIN OperandArms ->
                    parse_operand(st, OperandArms[mnemonic], parts, lno)
               [] OTHER -> PPanic(st, "unknown instruction", lno)

MaxOperands == 2
MaxLines == 2

\* a mnemonic, operands, and possibly a comment; a blank line; a comment line
Lines ==
    {<<m>> \o o \o c :
        m \in {"push", "ADD", "LABEL", "foo"},
        o \in SeqsUpTo({"1", "x"}, MaxOperands),
        c \in {<<>>, <<";", "x">>}}
    \cup {<<>>, <<";", "ADD">>}

ParseInit ==
    /\ input \in UNION {[1 .. k -> Lines] : k \in 1 .. MaxLines}
    /\ lineno = 0
    /\ presult = PRes("Running", 0)
    /\ LowerIdle
    /\ VmIdle
    /\ aresult = ARes("Idle", <<>>)
    /\ stack = <<>>
    /\ printed = <<>>

\* one iteration of the for loop
ParseLine ==
    /\ presult.kind = "Running"
    /\ lineno < Len(input)
    /\ LET st == parse_line([ir_insts |-> ir, presult |-> presult],
                            input[lineno + 1], lineno)
       IN  /\ ir' = st.ir_insts
           /\ presult' = st.presult
    /\ lineno' = lineno + 1
    /\ UNCHANGED <<program, pc, registers, call_stack, variables, result, last,
                   steps, ncalls, nrets, pos, output, control_stack, lresult,
                   input, aresult, stack, printed>>

\* the loop ends and parse_ir returns ir_insts
ParseFinish ==
    /\ presult.kind = "Running"
    /\ lineno = Len(input)
    /\ presult' = PRes("Returned", 0)
    /\ UNCHANGED <<program, pc, registers, call_stack, variables, result, last,
                   steps, ncalls, nrets, ir, pos, output, control_stack, lresult,
                   input, lineno, aresult, stack, printed>>

ParseNext == ParseLine \/ ParseFinish

SpecParse == ParseInit /\ [][ParseNext]_vars

----------------------------------------------------------------------------
(* Properties of lower_control_flow, checked under SpecLower *)

NonMarkers(s) == SelectSeq(s, LAMBDA i : i.op \notin Markers)

\* s can be obtained from t by deleting entries
RECURSIVE IsSubseq(_, _)
IsSubseq(s, t) ==
    IF s = <<>> THEN TRUE
    ELSE IF t = <<>> THEN FALSE
    ELSE IF Head(s) = Head(t) THEN IsSubseq(Tail(s), Tail(t))
    ELSE IsSubseq(s, Tail(t))

\* C10: when lower_control_flow returns, its output holds no marker, and the
\* non-marker instructions of the input appear in it in their original order.
C10_NoMarkerLeft ==
    lresult = "Returned"
        => /\ \A k \in 1 .. Len(output) : output[k].op \notin Markers
           /\ IsSubseq(NonMarkers(ir), output)

\* a pass returned for an input with markers around two different instructions
C10_Witness ==
    /\ lresult = "Returned"
    /\ Len(NonMarkers(ir)) = 2
    /\ NonMarkers(ir)[1] # NonMarkers(ir)[2]
    /\ Len(ir) = 4
    /\ ir[1].op \in Markers

\* the number of entries of s with the given op
CountOp(s, op) == Len(SelectSeq(s, LAMBDA e : e.op = op))

\* the input has more openers of one kind than closers of that kind, so one of
\* its openers is never closed
UnclosedOpener ==
    \/ CountOp(ir, "If") > CountOp(ir, "EndIf")
    \/ CountOp(ir, "While") > CountOp(ir, "EndWhile")
    \/ CountOp(ir, "Do") > CountOp(ir, "EndDo")

\* C12: for an input with an opener that is never closed the pass does not
\* return a lowered sequence.
C12_UnclosedOpenerFails ==
    (UnclosedOpener /\ lresult # "Running") => lresult # "Returned"

\* the entry kinds a closer matches
Matching(op) ==
    CASE op = "Else" -> {"if"}
      [] op = "EndIf" -> {"if", "endif"}
      [] op = "EndWhile" -> {"while"}
      [] op = "EndDo" -> {"do"}
      [] OTHER -> {}

\* the panic of each closer
MismatchText(op) ==
    CASE op = "Else" -> "ELSE without matching IF"
      [] op = "EndIf" -> "ENDIF without matching IF/ELSE"
      [] op = "EndWhile" -> "ENDWHILE without matching WHILE"
      [] op = "EndDo" -> "ENDDO without matching DO"
      [] OTHER -> ""

\* the next instruction is a closer, and control_stack is empty or its top
\* entry belongs to another construct
CloserWithoutOpener ==
    /\ lresult = "Running"
    /\ pos < Len(ir)
    /\ ir[pos + 1].op \in {"Else", "EndIf", "EndWhile", "EndDo"}
    /\ \/ control_stack = <<>>
       \/ Pop(control_stack).entry.kind \notin Matching(ir[pos + 1].op)

\* C13: a closer met with no matching opener on top of control_stack ends the
\* pass with the panic of that closer.
C13_CloserWithoutOpenerFails ==
    [][CloserWithoutOpener => lresult' = MismatchText(ir[pos + 1].op)]_vars

\* the label declarations of output named name that the pass generated: those
\* in excess of the declarations copied from the consumed input
Generated(name) ==
    CountOp(SelectSeq(output, LAMBDA e : e.name = name), "Label")
        > CountOp(SelectSeq(SubSeq(ir, 1, pos), LAMBDA e : e.name = name), "Label")

\* C14: no label the pass generates is spelled like a label declared in the
\* input.
C14_GeneratedLabelsFresh ==
    \A k \in 1 .. Len(ir) :
        ir[k].op = "Label" => ~Generated(ir[k].name)

----------------------------------------------------------------------------
(* Properties of assemble, checked under SpecAsm *)

NonLabels(s) == SelectSeq(s, LAMBDA e : e.op # "Label")

\* the number of entries before s[k] that are not labels
Preceding(s, k) == Len(NonLabels(SubSeq(s, 1, k - 1)))

\* the positions of the declarations of name
Declarations(s, name) == {k \in 1 .. Len(s) : s[k] = IRLabel(name)}

\* the positions of the references to labels
References(s) == {k \in 1 .. Len(s) : s[k].op \in LabelRefs}

Last(S) == CHOOSE k \in S : \A j \in S : j <= k

AssembleDone == lresult = "Returned" /\ aresult.kind # "Pending"

\* C15: the final sequence is the lowered sequence without its labels, in
\* order, and a reference to a label declared once, before or after it, holds
\* the number of non-label entries preceding the declaration.
C15_LabelsResolved ==
    aresult.kind = "Assembled"
        => /\ Len(program) = Len(NonLabels(output))
           /\ \A j \in 1 .. Len(program) :
                /\ program[j].op = NonLabels(output)[j].op
                /\ program[j].value = NonLabels(output)[j].value
           /\ \A k \in References(output) :
                \A d \in Declarations(output, output[k].name) :
                    Declarations(output, output[k].name) = {d}
                        => program[Preceding(output, k) + 1].addr
                               = Preceding(output, d)

\* a sequence was assembled that refers to a label before its declaration and
\* to a label after its declaration, with instructions before the labels
C15_Witness ==
    /\ aresult.kind = "Assembled"
    /\ \E k \in References(output) :
         \E d \in Declarations(output, output[k].name) :
            k < d /\ Preceding(output, d) > 0
    /\ \E k \in References(output) :
         \E d \in Declarations(output, output[k].name) :
            d < k /\ Preceding(output, d) > 0

\* the references to names declared nowhere
Undefined(s) == {k \in References(s) : Declarations(s, s[k].name) = {}}

First(S) == CHOOSE k \in S : \A j \in S : k <= j

\* C16: a reference to a name declared nowhere ends assemble with the
\* undefined-label panic carrying the name, and no instructions are returned.
C16_UndefinedLabelFails ==
    (AssembleDone /\ Undefined(output) # {})
        => /\ aresult = ARes("undefined label", output[First(Undefined(output))].name)
           /\ program = <<>>

\* assemble ended on an undefined label that follows translatable instructions
C16_Witness ==
    /\ AssembleDone
    /\ Undefined(output) # {}
    /\ First(Undefined(output)) > 1
    /\ output[1].op = "Push"

\* the references to names declared more than once
Redeclared(s) == {k \in References(s) : Cardinality(Declarations(s, s[k].name)) > 1}

\* C17: declaring a name again is not a failure, and every reference to a name
\* declared more than once holds the position of its last declaration.
C17_LastDeclarationWins ==
    (AssembleDone /\ Undefined(output) = {})
        => /\ aresult.kind = "Assembled"
           /\ \A k \in Redeclared(output) :
                program[Preceding(output, k) + 1].addr
                    = Preceding(output, Last(Declarations(output, output[k].name)))

\* a sequence was assembled in which a reference stands between two
\* declarations of its name that have different positions
C17_Witness ==
    /\ aresult.kind = "Assembled"
    /\ \E k \in Redeclared(output) :
         \E d1, d2 \in Declarations(output, output[k].name) :
            /\ d1 < k /\ k < d2
            /\ Preceding(output, d1) # Preceding(output, d2)

----------------------------------------------------------------------------
(* Properties of structured programs run on the stack machine, checked under *)
(* SpecRun                                                                   *)

Has(op) == \E k \in 1 .. Len(ir) : ir[k].op = op
IndexOf(op) == CHOOSE k \in 1 .. Len(ir) : ir[k].op = op
Values(s) == [k \in 1 .. Len(s) |-> s[k].value]

\* lowering, assembly and the run have raised nothing so far
NoFailure ==
    /\ lresult \in {"Running", "Returned"}
    /\ aresult.kind \in {"Pending", "Assembled"}
    /\ result.kind \in {"Idle", "Running", "Ok"}

\* the parts of <cond> IF <then> ELSE <else> ENDIF <sentinel>
CondPart == SubSeq(ir, 1, IndexOf("If") - 1)
ThenPart == SubSeq(ir, IndexOf("If") + 1, IndexOf("Else") - 1)
ElsePart == SubSeq(ir, IndexOf("Else") + 1, IndexOf("EndIf") - 1)
Sentinel == SubSeq(ir, IndexOf("EndIf") + 1, Len(ir))

\* the value <cond> leaves on the stack
CondValue ==
    IF Len(CondPart) = 1 THEN CondPart[1].value
    ELSE IF CondPart[1].value = CondPart[2].value THEN 1 ELSE 0

\* the values the branch that must run pushes, and those of the other branch
Taken == Values(IF CondValue # 0 THEN ThenPart ELSE ElsePart)
NotTaken == Values(IF CondValue # 0 THEN ElsePart ELSE ThenPart)

\* C11: for <cond> IF <then> ELSE <else> ENDIF <sentinel> nothing fails, no
\* instruction of the branch that is not selected ever executes (its values
\* never reach the stack), and the run ends with the values of the selected
\* branch followed by the sentinel: then for a non-zero condition, else for
\* zero, the sentinel after either.
C11_IfElseSelectsBranch ==
    Has("If")
        => /\ NoFailure
           /\ \A k \in 1 .. Len(stack) :
                \A j \in 1 .. Len(NotTaken) : stack[k] # NotTaken[j]
           /\ result = Ok => stack = Taken \o Values(Sentinel)

\* a run ended after a non-zero comparison selected a then branch of two
\* instructions over an else branch of two
C11_Witness ==
    /\ Has("If")
    /\ result = Ok
    /\ Len(CondPart) = 3
    /\ CondValue # 0
    /\ Len(ThenPart) = 2
    /\ Len(ElsePart) = 2
    /\ stack = Values(ThenPart) \o <<6>>

\* n times the value v
Rep(v, n) == [k \in 1 .. n |-> v]

Front(s) == SubSeq(s, 1, Len(s) - 1)

\* the values pushed before the loop, and the number of PRINTs of its body
LoopConds(opener) == Values(SubSeq(ir, 1, IndexOf(opener) - 1))
BodyLen(opener) == CountOp(ir, "Print")

\* DO: the body prints the top of the stack, then the top is consumed and the
\* loop goes on when it is not zero; on an empty stack the body prints the
\* empty-stack value and the test fails
RECURSIVE DoPrints(_, _)
DoPrints(cs, b) ==
    IF cs = <<>> THEN Rep(EmptyStack, b)
    ELSE Rep(cs[Len(cs)], b)
         \o (IF cs[Len(cs)] = 0 THEN <<>> ELSE DoPrints(Front(cs), b))

\* what is left of the pushed values when the loop exits
RECURSIVE LoopRest(_)
LoopRest(cs) ==
    IF cs = <<>> THEN <<>>
    ELSE IF cs[Len(cs)] = 0 THEN Front(cs) ELSE LoopRest(Front(cs))

IsPrefix(s, t) == Len(s) <= Len(t) /\ s = SubSeq(t, 1, Len(s))

Zero(cs) == \E k \in 1 .. Len(cs) : cs[k] = 0

\* C18: the body of DO .. ENDDO runs before the first test, every test consumes
\* the top of the stack, the body runs again exactly when the consumed value
\* is not zero, and on zero the run goes on after ENDDO.
C18_DoRunsBodyFirst ==
    Has("Do")
        => LET cs == LoopConds("Do")
               b == BodyLen("Do")
           IN  /\ lresult \in {"Running", "Returned"}
               /\ aresult.kind \in {"Pending", "Assembled"}
               /\ IsPrefix(printed, DoPrints(cs, b))
               /\ result = Ok
                    => /\ Zero(cs)
                       /\ printed = DoPrints(cs, b)
                       /\ stack = Append(LoopRest(cs), 6)
               /\ result.kind \notin {"Idle", "Running", "Ok"}
                    => /\ ~Zero(cs)
                       /\ printed = DoPrints(cs, b)
                       /\ result = StackUnderflow("ConditionalJump")

\* a run ended after a DO body ran for a non-zero value and then for zero,
\* leaving the value below them
C18_Witness ==
    /\ Has("Do")
    /\ result = Ok
    /\ BodyLen("Do") = 1
    /\ printed = <<1, 0>>
    /\ stack = <<2, 6>>

\* WHILE: the top of the stack is consumed, on zero the loop is left, else the
\* body prints the new top and the test is made again
RECURSIVE WhilePrints(_, _)
WhilePrints(cs, b) ==
    IF cs = <<>> THEN <<>>
    ELSE IF cs[Len(cs)] = 0 THEN <<>>
    ELSE Rep(IF Len(cs) = 1 THEN EmptyStack ELSE cs[Len(cs) - 1], b)
         \o WhilePrints(Front(cs), b)

\* the head of the lowered loop: a label directly before the conditional jump,
\* and a jump back to that label
LoopHead ==
    \E k \in 1 .. Len(output) - 1 :
        /\ output[k].op = "Label"
        /\ output[k + 1].op = "ConditionalJump"
        /\ \E j \in k + 2 .. Len(output) : output[j] = IRJump(output[k].name)

\* C19: for <cond> WHILE <body> ENDWHILE <rest> a zero condition runs no body
\* instruction and the run goes on at <rest>; a non-zero condition runs the
\* body and goes back to the loop head, a label directly before the
\* conditional exit jump, where the test is made again.
C19_WhileTestsFirst ==
    Has("While")
        => LET cs == LoopConds("While")
               b == BodyLen("While")
           IN  /\ lresult \in {"Running", "Returned"}
               /\ aresult.kind \in {"Pending", "Assembled"}
               /\ lresult = "Returned" => LoopHead
               /\ IsPrefix(printed, WhilePrints(cs, b))
               /\ result = Ok
                    => /\ Zero(cs)
                       /\ printed = WhilePrints(cs, b)
                       /\ stack = Append(LoopRest(cs), 6)
               /\ result.kind \notin {"Idle", "Running", "Ok"}
                    => /\ ~Zero(cs)
                       /\ printed = WhilePrints(cs, b)
                       /\ result = StackUnderflow("ConditionalJump")

\* a run ended after a WHILE body ran twice and the third test found zero
C19_Witness ==
    /\ Has("While")
    /\ result = Ok
    /\ BodyLen("While") = 1
    /\ printed = <<2, 0>>
    /\ stack = <<6>>

----------------------------------------------------------------------------
(* Properties of parse_ir, checked under SpecParse *)

\* the number of operands each mnemonic takes
Arity(mnemonic) ==
    IF mnemonic \in {"PUSH", "JUMP", "CALL", "CJUMP", "STORE", "LOAD", "LABEL"}
    THEN 1 ELSE 0

\* the next line has a mnemonic of the language followed by a number of
\* operands that is not its arity
WrongArity ==
    /\ presult.kind = "Running"
    /\ lineno < Len(input)
    /\ LET parts == Strip(input[lineno + 1])
       IN  /\ parts # <<>>
           /\ to_uppercase(parts[1]) \in DOMAIN OperandArms \cup DOMAIN PlainArms
           /\ Len(parts) - 1 # Arity(to_uppercase(parts[1]))

\* C20: a line whose operand count is not the arity of its mnemonic ends
\* parse_ir with a failure that carries the line's number counted from 1, and
\* appends no instruction.
C20_WrongArityRejected ==
    [][WrongArity
        => /\ presult'.kind \notin {"Running", "Returned"}
           /\ presult'.line = lineno + 1
           /\ ir' = ir]_vars

----------------------------------------------------------------------------
(* Further properties of the register machine, checked under Spec *)

\* C21: a Store{src, var} that succeeds binds var to the value of register
\* src, replacing any binding var had, and changes no register; no other
\* instruction changes a binding; a Load{dest, var} that succeeds writes the
\* value bound to var into register dest and nothing else.
C21_StoreThenLoad ==
    [][InLoop
        => /\ (Cur.op = "Store" /\ result' = Running)
                => /\ variables' = Insert(variables, Cur.var, registers[Cur.src1 + 1])
                   /\ registers' = registers
           /\ Cur.op # "Store" => variables' = variables
           /\ (Cur.op = "Load" /\ result' = Running)
                => registers' = [registers EXCEPT ![Cur.dest + 1] = variables[Cur.var]]
      ]_vars

\* a Load put back into register 0 the value stored from it before it was
\* overwritten
C21_Witness ==
    /\ Len(program) = 3
    /\ program[1].op = "Store"
    /\ program[2].op = "LoadImm" /\ program[2].dest = 0 /\ program[2].value # 0
    /\ program[3].op = "Load" /\ program[3].dest = 0
    /\ pc = 3
    /\ result = Running
    /\ registers[1] = 0
    /\ variables["x"] = 0

----------------------------------------------------------------------------
(* Further properties of lower_control_flow, checked under SpecLower *)

\* the next instruction is ENDIF and the top entry of control_stack is an if
\* entry: no ELSE was seen for the innermost IF
EndIfOnIf ==
    /\ lresult = "Running"
    /\ pos < Len(ir)
    /\ ir[pos + 1].op = "EndIf"
    /\ control_stack # <<>>
    /\ Pop(control_stack).entry.kind = "if"

\* C23: ENDIF met with an if entry on top of control_stack does not fail: it
\* pops that entry and no other, appends a label, and patches the conditional
\* jump of that entry, and nothing else, to the label.
C23_EndIfClosesTopIf ==
    [][EndIfOnIf
        => LET top == Pop(control_stack).entry
               label == output'[Len(output')]
           IN  /\ lresult' = "Running"
               /\ control_stack' = Pop(control_stack).rest
               /\ Len(output') = Len(output) + 1
               /\ label.op = "Label"
               /\ SubSeq(output', 1, Len(output))
                    = Patch(output, top.index, IRConditionalJump(label.name))
      ]_vars

\* C24: in the output lower_control_flow returns no Jump and no
\* ConditionalJump has the empty label, and the label of each is declared
\* exactly once in the output.
C24_PlaceholdersPatched ==
    lresult = "Returned"
        => \A k \in 1 .. Len(output) :
              output[k].op \in {"Jump", "ConditionalJump"}
                  => /\ output[k].name # <<>>
                     /\ Cardinality(Declarations(output, output[k].name)) = 1

\* the number of declarations of name the pass has generated: those of the
\* output in excess of the declarations copied from the consumed input
GeneratedCount(name) ==
    Cardinality(Declarations(output, name))
        - Cardinality(Declarations(SubSeq(ir, 1, pos), name))

\* C25: the labels the pass generates in one run have pairwise different
\* names, whatever the sequence of constructs.
C25_GeneratedLabelsDistinct ==
    \A k \in 1 .. Len(output) :
        output[k].op = "Label" => GeneratedCount(output[k].name) <= 1

\* a pass returned for four markers with no instruction between them, having
\* generated four labels
C25_Witness ==
    /\ lresult = "Returned"
    /\ Len(ir) = 4
    /\ \A k \in 1 .. Len(ir) : ir[k].op \in Markers
    /\ CountOp(output, "Label") = 4

----------------------------------------------------------------------------
(* Programs whose last label has no instruction after it, assembled and run: *)
(* SpecTail                                                                  *)

\* the structured programs with and without the instruction after the closer
ClosedPrograms ==
    LET P == IfElsePrograms \cup DoPrograms \cup WhilePrograms
    IN  P \cup {Front(p) : p \in P}

\* a reference to the label a, declared later, at the end of the text or
\* before its last instruction
ForwardPrograms ==
    {pre \o <<ref>> \o mid \o <<IRLabel(<<"a">>)>> \o post :
        pre \in SeqsUpTo({IRPush(0), IRPush(1)}, 1),
        ref \in {IRJump(<<"a">>), IRCall(<<"a">>), IRConditionalJump(<<"a">>)},
        mid \in SeqsUpTo({IRPush(2)}, 1),
        post \in SeqsUpTo({IRPush(3)}, 1)}

TailInit ==
    /\ ir \in ClosedPrograms \cup ForwardPrograms
    /\ AsmStart

SpecTail == TailInit /\ [][RunNext]_vars

\* the next iteration of the stack machine takes a jump: Jump, Call, or
\* ConditionalJump with zero on top of the stack
StackTakesJump ==
    /\ aresult.kind = "Assembled"
    /\ InLoop
    /\ \/ Cur.op \in {"Jump", "Call"}
       \/ Cur.op = "ConditionalJump" /\ stack # <<>> /\ stack[Len(stack)] = 0

\* every entry after position d of s is a label
OnlyLabelsAfter(s, d) == \A i \in d + 1 .. Len(s) : s[i].op = "Label"

\* the targets of an assembled sequence are within 0 .. length, and a target
\* is the length exactly when no instruction follows the declaration of its
\* label
TargetsWithinLength ==
    aresult.kind = "Assembled"
        => /\ \A j \in 1 .. Len(program) :
                program[j].op \in LabelRefs => program[j].addr \in 0 .. Len(program)
           /\ \A k \in References(output) :
                (program[Preceding(output, k) + 1].addr = Len(program))
                    <=> OnlyLabelsAfter(output,
                                        Last(Declarations(output, output[k].name)))

\* C26: every target assemble produces is within 0 .. length of the final
\* sequence and equals the length exactly when its label is declared after the
\* last instruction; a taken jump to the length makes run fail with
\* ProgramCounterOutOfBounds.
C26_TargetAtLengthFails ==
    /\ []TargetsWithinLength
    /\ [][(StackTakesJump /\ Cur.addr = Len(program))
            => result' = ProgramCounterOutOfBounds]_vars

\* the then branch of a program ending in ENDIF ran, and its jump over the
\* else branch failed
C26_Witness ==
    /\ ir[Len(ir)].op = "EndIf"
    /\ result = ProgramCounterOutOfBounds
    /\ Len(ThenPart) = 2
    /\ stack = Values(ThenPart)
    /\ program[last + 1].op = "Jump"
    /\ program[last + 1].addr = Len(program)

----------------------------------------------------------------------------
(* Invariants and failures of the register machine, checked under Spec *)

\* C27: pc is within 0 .. length of the program and every return address on
\* the call stack is within 1 .. length, so the fetch of the loop, made when
\* pc is below the length, is within the program.
C27_PcAndFramesInRange ==
    /\ pc \in 0 .. Len(program)
    /\ \A k \in 1 .. Len(call_stack) :
          call_stack[k].return_address \in 1 .. Len(program)
    /\ InLoop => pc + 1 \in DOMAIN program

\* a Return took pc to the length of the program, the return address of a
\* Call in the last position
C27_Witness ==
    /\ result = Running
    /\ last >= 0
    /\ LastInstr.op = "Return"
    /\ pc = Len(program)
    /\ program[Len(program)].op = "Call"

\* C28: run over i32 ends with Ok or with a VmError: no instruction ends it in
\* another way.
C28_RunEndsTyped ==
    result.kind \in {"Running", "Ok", "RegisterOutOfBounds",
                     "ProgramCounterOutOfBounds", "CallStackEmpty"}

\* C29: an instruction that fails with RegisterOutOfBounds,
\* ProgramCounterOutOfBounds or CallStackEmpty leaves the registers, the
\* variables and the call stack as they were when it was fetched, and pc at
\* its index + 1.
C29_FailureChangesNothing ==
    [][(InLoop /\ result'.kind \in {"RegisterOutOfBounds",
                                    "ProgramCounterOutOfBounds", "CallStackEmpty"})
        => /\ registers' = registers
           /\ variables' = variables
           /\ call_stack' = call_stack
           /\ pc' = pc + 1]_vars

\* an instruction reading an invalid register failed inside a call, with a
\* non-zero register
C29_Witness ==
    /\ result.kind = "RegisterOutOfBounds"
    /\ result.index >= NumRegs
    /\ pc = last + 1
    /\ call_stack # <<>>
    /\ registers[1] # 0

====
